---- MODULE Spec2Model ----
(***************************************************************************)
(* Model of the Chinese PDF OCR correction pipeline:                       *)
(*   src/pdf_repair_service.py  (class PDFRepairService)                   *)
(*   src/app.py                 (Streamlit front end, main())              *)
(*                                                                         *)
(* Strings are sequences of one-character strings.  The text returned by   *)
(* a model call for chunk k of document d is a string over the single      *)
(* token <<kind, d, k>>, of a length chosen by the model: the content of   *)
(* a reply is arbitrary, its origin and its length are what the pipeline   *)
(* depends on.                                                             *)
(***************************************************************************)
EXTENDS Integers, Sequences, FiniteSets, TLC

(***************************************************************************)
(* Bounds of the model                                                     *)
(***************************************************************************)
\* chunk_size / chunk_overlap arguments of split_and_correct_text_with_runnables
\* (defaults 2000 / 200), scaled down so that texts on both sides of the
\* chunk size can be enumerated
ChunkSize == 3
ChunkOverlap == 1
\* how far the longest text handed to the pipeline exceeds the chunk size
ExtraLen == 1
\* pages of a document and characters the OCR finds on a page
MaxPages == 2
MaxPageLen == 2
\* longest corrected text a correction call returns
MaxCorrLen == 2
\* how far a summary may exceed the 200 character cut
SummaryOver == 1
\* documents processed in one behaviour
MaxDocs == 2
\* direct calls of reassemble_text: number of chunks, chunk length, target
MaxParts == 2
MaxPartLen == 2
MaxTarget == 4

\* new_summary[:200] (pdf_repair_service.py line 167)
SummaryLimit == 200

MaxTextLen == ChunkSize + ExtraLen

Procs == {1, 2}

Chars == {"a", " ", "\n"}
OcrChars == {"a", " "}
Whitespace == {" ", "\n"}
PartChars == {"a", "b"}

EmptyStr == <<>>

(***************************************************************************)
(* String helpers                                                          *)
(***************************************************************************)
Min(a, b) == IF a < b THEN a ELSE b

\* the strings over alphabet S of length at most n
StringsUpTo(S, n) == UNION {[1..k -> S] : k \in 0..n}

\* s[:n]
Take(s, n) == SubSeq(s, 1, Min(n, Len(s)))

\* s[n:]  (0-based start n)
Drop(s, n) == SubSeq(s, n + 1, Len(s))

\* c * n
Repeat(c, n) == [j \in 1..n |-> c]

\* " " * n
Spaces(n) == Repeat(" ", n)

RECURSIVE LStrip(_)
LStrip(s) == IF s # <<>> /\ Head(s) \in Whitespace THEN LStrip(Tail(s)) ELSE s

RECURSIVE RStrip(_)
RStrip(s) ==
  IF s # <<>> /\ s[Len(s)] \in Whitespace THEN RStrip(SubSeq(s, 1, Len(s) - 1)) ELSE s

\* str.strip()
Strip(s) == RStrip(LStrip(s))

\* "".join(parts) with a dropped last part: a mutant of Join
RECURSIVE JoinDropLast(_)
JoinDropLast(parts) ==
  IF Len(parts) <= 1 THEN <<>> ELSE Head(parts) \o JoinDropLast(Tail(parts))

\* "".join(parts)
RECURSIVE Join(_)
Join(parts) == IF parts = <<>> THEN <<>> ELSE Head(parts) \o Join(Tail(parts))

(***************************************************************************)
(* reassemble_text (pdf_repair_service.py lines 207-234)                   *)
(* original_text_length is <<>> for None and <<n>> for the integer n.      *)
(***************************************************************************)
NoLength == <<>>

\* Python truth value of original_text_length: None and 0 are both false
Truthy(original_text_length) ==
  original_text_length # NoLength /\ original_text_length[1] # 0

reassemble_text(corrected_chunks, original_text_length) ==
  LET final_text == Join(corrected_chunks) IN
  IF Truthy(original_text_length) /\ Len(final_text) # original_text_length[1]
  THEN IF Len(final_text) > original_text_length[1]
       THEN SubSeq(final_text, 1, original_text_length[1])
       ELSE final_text \o Spaces(original_text_length[1] - Len(final_text))
  ELSE final_text

(***************************************************************************)
(* RecursiveCharacterTextSplitter(chunk_size, chunk_overlap).split_text    *)
(* as called at pdf_repair_service.py lines 188-192, with the library's    *)
(* defaults: separators ["\n\n", "\n", " ", ""], keep_separator=True,      *)
(* strip_whitespace=True, length_function=len.                             *)
(***************************************************************************)
Separators == << <<"\n", "\n">>, <<"\n">>, <<" ">>, <<>> >>

\* positions at which sep occurs in text
Matches(text, sep) ==
  {m \in 1..(Len(text) - Len(sep) + 1) : SubSeq(text, m, m + Len(sep) - 1) = sep}

\* re.search(re.escape(sep), text) for a non-empty sep
Contains(text, sep) == Matches(text, sep) # {}

SetMin(S) == CHOOSE m \in S : \A k \in S : m <= k

\* the pieces between the leftmost non-overlapping occurrences of sep
RECURSIVE Pieces(_, _)
Pieces(text, sep) ==
  IF ~Contains(text, sep) THEN <<text>>
  ELSE LET m == SetMin(Matches(text, sep)) IN
       <<SubSeq(text, 1, m - 1)>> \o Pieces(Drop(text, m - 1 + Len(sep)), sep)

NonEmpty(seq) == SelectSeq(seq, LAMBDA s : s # <<>>)

\* _split_text_with_regex(text, separator, keep_separator=True): the
\* separator stays at the start of the piece that follows it
split_text_with_regex(text, sep) ==
  IF sep # <<>>
  THEN LET ps == Pieces(text, sep) IN
       NonEmpty([j \in 1..Len(ps) |-> IF j = 1 THEN ps[1] ELSE sep \o ps[j]])
  ELSE [j \in 1..Len(text) |-> <<text[j]>>]

\* _join_docs: the joined text stripped; <<>> stands for None (no document)
join_docs(docs, separator) == Strip(Join(docs))

AppendDoc(docs, doc) == IF doc = <<>> THEN docs ELSE Append(docs, doc)

\* the "while" loop of _merge_splits that pops from the front of current_doc
RECURSIVE PopWhile(_, _, _, _, _)
PopWhile(current_doc, total, len_d, chunk_size, chunk_overlap) ==
  IF total > chunk_overlap \/ (total + len_d > chunk_size /\ total > 0)
  THEN PopWhile(Tail(current_doc), total - Len(Head(current_doc)), len_d,
                chunk_size, chunk_overlap)
  ELSE [current_doc |-> current_doc, total |-> total]

\* _merge_splits(splits, separator="") from split k on; st is the loop state
RECURSIVE MergeFrom(_, _, _, _, _)
MergeFrom(splits, k, st, chunk_size, chunk_overlap) ==
  IF k > Len(splits)
  THEN AppendDoc(st.docs, join_docs(st.current_doc, <<>>))
  ELSE LET d == splits[k]
           flush == st.total + Len(d) > chunk_size /\ Len(st.current_doc) > 0
           popped == IF flush
                     THEN PopWhile(st.current_doc, st.total, Len(d),
                                   chunk_size, chunk_overlap)
                     ELSE [current_doc |-> st.current_doc, total |-> st.total]
           docs == IF flush
                   THEN AppendDoc(st.docs, join_docs(st.current_doc, <<>>))
                   ELSE st.docs
       IN MergeFrom(splits, k + 1,
                    [docs |-> docs,
                     current_doc |-> Append(popped.current_doc, d),
                     total |-> popped.total + Len(d)],
                    chunk_size, chunk_overlap)

merge_splits(splits, chunk_size, chunk_overlap) ==
  MergeFrom(splits, 1, [docs |-> <<>>, current_doc |-> <<>>, total |-> 0],
            chunk_size, chunk_overlap)

\* index of the separator _split_text picks: the first that is "" or occurs
PickSeparator(text, separators) ==
  SetMin({j \in 1..Len(separators) :
            separators[j] = <<>> \/ Contains(text, separators[j])})

RECURSIVE split_text_rec(_, _, _, _)
RECURSIVE SplitLoop(_, _, _, _, _, _, _)

\* the "for s in splits" loop of _split_text
SplitLoop(splits, k, good, final_chunks, new_separators, chunk_size, chunk_overlap) ==
  IF k > Len(splits)
  THEN IF good # <<>>
       THEN final_chunks \o merge_splits(good, chunk_size, chunk_overlap)
       ELSE final_chunks
  ELSE LET s == splits[k] IN
       IF Len(s) < chunk_size
       THEN SplitLoop(splits, k + 1, Append(good, s), final_chunks,
                      new_separators, chunk_size, chunk_overlap)
       ELSE LET flushed == IF good # <<>>
                           THEN final_chunks \o merge_splits(good, chunk_size, chunk_overlap)
                           ELSE final_chunks
                more == IF new_separators = <<>>
                        THEN <<s>>
                        ELSE split_text_rec(s, new_separators, chunk_size, chunk_overlap)
            IN SplitLoop(splits, k + 1, <<>>, flushed \o more,
                         new_separators, chunk_size, chunk_overlap)

\* RecursiveCharacterTextSplitter._split_text(text, separators)
split_text_rec(text, separators, chunk_size, chunk_overlap) ==
  LET j == PickSeparator(text, separators)
      separator == separators[j]
      new_separators == IF separator = <<>> THEN <<>>
                        ELSE SubSeq(separators, j + 1, Len(separators))
      splits == split_text_with_regex(text, separator)
  IN SplitLoop(splits, 1, <<>>, <<>>, new_separators, chunk_size, chunk_overlap)

\* mutant: a splitter that always returns the text as its only chunk
split_text_whole(text, chunk_size, chunk_overlap) == <<text>>

\* text_splitter.split_text(text)
split_text(text, chunk_size, chunk_overlap) ==
  split_text_rec(text, Separators, chunk_size, chunk_overlap)


(***************************************************************************)
(* State                                                                   *)
(***************************************************************************)
VARIABLES
  pdftoppm_ok,       \* the host had a working pdftoppm (poppler) at the last probe
  service,           \* "absent", "ready" or "failed": outcome of PDFRepairService()
  owner,             \* who built the service object: "main" (app.py) or "client"
  previous_summary,  \* self.previous_summary, the rolling context of the service object
  ndocs,             \* documents handed to the service object so far
  entries,           \* the kinds of invocation made on the service object so far
  stale,             \* the field held a summary when the invocation began
  temp_pdf,          \* the file temp.pdf exists
  shown,             \* what the page shows
  pc,                \* position of each invocation
  entry,             \* how the invocation entered the service
  doc,               \* number of the document the invocation works on
  text,              \* argument of split_and_correct_text_with_runnables
  original_length,   \* len(extracted_text), <<>> while unset
  chunks,            \* text_splitter.split_text(text)
  i,                 \* loop position in chunks (1-based)
  context,           \* local context of the loop body
  corrected_text,    \* local of correct_text_with_runnables
  new_summary,       \* local of correct_text_with_runnables
  corrected_chunks,  \* local of split_and_correct_text_with_runnables
  split_result,      \* <<list>> once split_and_correct_text_with_runnables returned
  final_text,        \* <<text>> once reassemble_text returned
  outcome,           \* "none", "returned" or "raised"
  calls              \* model calls made by the invocation, in order

svc_vars == <<pdftoppm_ok, service, owner, previous_summary, ndocs, entries>>
app_vars == <<temp_pdf, shown>>
loc_vars == <<stale, entry, doc, text, original_length, chunks, i, context, corrected_text,
              new_summary, corrected_chunks, split_result, final_text, outcome, calls>>
vars == <<svc_vars, app_vars, pc, loc_vars>>

\* lengths of the texts the correction call may return
CorrLens == {0, MaxCorrLen}

\* lengths of the summaries the summarization call may return
SummaryLens == {0, SummaryLimit, SummaryLimit + SummaryOver}

\* reply of the correction model for chunk k of document d, n characters long
CorrectionReply(d, k, n) == Repeat(<<"c", d, k>>, n)

\* reply of the summarization model for chunk k of document d
SummaryReply(d, k, n) == Repeat(<<"s", d, k>>, n)

\* lines 90-96: extracted_text += page_text + "\n" for every page
RECURSIVE JoinPages(_)
JoinPages(pages) ==
  IF pages = <<>> THEN <<>> ELSE Head(pages) \o <<"\n">> \o JoinPages(Tail(pages))

\* line 99: return extracted_text.strip()
ExtractedText(pages) == Strip(JoinPages(pages))

\* the OCR results of the documents: one text per page
PageLists ==
  {pages \in UNION {[1..k -> StringsUpTo(OcrChars, MaxPageLen)] : k \in 0..MaxPages} :
     Len(ExtractedText(pages)) <= MaxTextLen}

\* texts handed directly to split_and_correct_text_with_runnables, which
\* unlike extracted texts may begin or end with whitespace
DirectTexts == StringsUpTo(Chars, ChunkSize)

\* texts and one-page documents of the concurrent invocations: no chunk,
\* one chunk, several chunks
WordTexts == {Repeat("a", n) : n \in {0, ChunkSize, MaxTextLen}}
WordPages == {<<w>> : w \in WordTexts}

Range(s) == {s[j] : j \in DOMAIN s}

\* a new invocation p of kind e on text t: its locals start afresh
Begin(p, e, t) ==
  /\ entry' = [entry EXCEPT ![p] = e]
  /\ doc' = [doc EXCEPT ![p] = ndocs + 1]
  /\ text' = [text EXCEPT ![p] = t]
  /\ original_length' = [original_length EXCEPT ![p] = NoLength]
  /\ chunks' = [chunks EXCEPT ![p] = <<>>]
  /\ i' = [i EXCEPT ![p] = 1]
  /\ context' = [context EXCEPT ![p] = EmptyStr]
  /\ corrected_text' = [corrected_text EXCEPT ![p] = <<>>]
  /\ new_summary' = [new_summary EXCEPT ![p] = <<>>]
  /\ corrected_chunks' = [corrected_chunks EXCEPT ![p] = <<>>]
  /\ split_result' = [split_result EXCEPT ![p] = <<>>]
  /\ final_text' = [final_text EXCEPT ![p] = <<>>]
  /\ outcome' = [outcome EXCEPT ![p] = "none"]
  /\ calls' = [calls EXCEPT ![p] = <<>>]
  /\ ndocs' = ndocs + 1
  /\ entries' = entries \cup {e}
  /\ stale' = [stale EXCEPT ![p] = (previous_summary # EmptyStr)]

InitLocals ==
  /\ pc = [p \in Procs |-> "idle"]
  /\ entry = [p \in Procs |-> "none"]
  /\ doc = [p \in Procs |-> 0]
  /\ text = [p \in Procs |-> <<>>]
  /\ original_length = [p \in Procs |-> NoLength]
  /\ chunks = [p \in Procs |-> <<>>]
  /\ i = [p \in Procs |-> 1]
  /\ context = [p \in Procs |-> EmptyStr]
  /\ corrected_text = [p \in Procs |-> <<>>]
  /\ new_summary = [p \in Procs |-> <<>>]
  /\ corrected_chunks = [p \in Procs |-> <<>>]
  /\ split_result = [p \in Procs |-> <<>>]
  /\ final_text = [p \in Procs |-> <<>>]
  /\ outcome = [p \in Procs |-> "none"]
  /\ calls = [p \in Procs |-> <<>>]
  /\ stale = [p \in Procs |-> FALSE]

\* a new run of the program: the locals of the run before are gone
FreshLocals ==
  /\ pc' = [p \in Procs |-> "idle"]
  /\ entry' = [p \in Procs |-> "none"]
  /\ doc' = [p \in Procs |-> 0]
  /\ text' = [p \in Procs |-> <<>>]
  /\ original_length' = [p \in Procs |-> NoLength]
  /\ chunks' = [p \in Procs |-> <<>>]
  /\ i' = [p \in Procs |-> 1]
  /\ context' = [p \in Procs |-> EmptyStr]
  /\ corrected_text' = [p \in Procs |-> <<>>]
  /\ new_summary' = [p \in Procs |-> <<>>]
  /\ corrected_chunks' = [p \in Procs |-> <<>>]
  /\ split_result' = [p \in Procs |-> <<>>]
  /\ final_text' = [p \in Procs |-> <<>>]
  /\ outcome' = [p \in Procs |-> "none"]
  /\ calls' = [p \in Procs |-> <<>>]
  /\ stale' = [p \in Procs |-> FALSE]

\* before any run: no service object, nothing on the page
Init ==
  /\ pdftoppm_ok = TRUE
  /\ service = "absent"
  /\ owner = "none"
  /\ previous_summary = EmptyStr
  /\ ndocs = 0
  /\ entries = {}
  /\ temp_pdf = FALSE
  /\ shown = {}
  /\ InitLocals

(***************************************************************************)
(* Construction: PDFRepairService.__init__ (lines 27-59)                   *)
(***************************************************************************)
\* mutant: the probe is not made
check_poppler_skipped(tool_ok) == TRUE

\* _check_poppler_installation: raises unless `pdftoppm -v` runs
check_poppler_installation(tool_ok) == tool_ok

\* PDFRepairService() called by o: a new object replaces the one of the run
\* before; the model client may fail to initialise, the rasteriser may be
\* missing; on success the new object's previous_summary is ""
Construct(o) ==
  /\ \A p \in Procs : pc[p] = "idle"
  /\ \E llm_ok \in BOOLEAN, tool_ok \in BOOLEAN :
       /\ pdftoppm_ok' = tool_ok
       /\ service' = IF llm_ok /\ check_poppler_installation(tool_ok)
                     THEN "ready" ELSE "failed"
  /\ owner' = o
  /\ previous_summary' = EmptyStr
  /\ entries' = {}
  /\ FreshLocals
  /\ UNCHANGED <<ndocs, temp_pdf>>

\* app.py lines 11-23: a run of main() builds its own service object; on
\* failure it reports and returns before the uploader
AppInit ==
  /\ Construct("main")
  /\ shown' = IF service' = "failed" THEN {"init_error"} ELSE {}

\* a caller other than main() builds a service object (lines 271-273)
ClientInit ==
  /\ Construct("client")
  /\ UNCHANGED shown

(***************************************************************************)
(* Entering the service                                                    *)
(***************************************************************************)
\* a caller invokes process_pdf(pdf_path) on the service object
StartProcessPdf(p) ==
  /\ service = "ready" /\ owner = "client" /\ pc[p] = "idle" /\ ndocs < MaxDocs
  /\ Begin(p, "process_pdf", <<>>)
  /\ pc' = [pc EXCEPT ![p] = "extract"]
  /\ UNCHANGED <<pdftoppm_ok, service, owner, previous_summary, app_vars>>

\* app.py lines 26-37: the run of main() that built the object finds an
\* uploaded file and writes it to temp.pdf; a run handles one upload
AppUpload(p) ==
  /\ service = "ready" /\ owner = "main" /\ entries = {}
  /\ pc[p] = "idle" /\ ndocs < MaxDocs
  /\ Begin(p, "app", <<>>)
  /\ temp_pdf' = TRUE
  /\ shown' = {}
  /\ pc' = [pc EXCEPT ![p] = "extract"]
  /\ UNCHANGED <<pdftoppm_ok, service, owner, previous_summary>>

\* a caller invokes split_and_correct_text_with_runnables(text) directly
StartSplit(p, texts) ==
  /\ service = "ready" /\ owner = "client" /\ pc[p] = "idle" /\ ndocs < MaxDocs
  /\ \E t \in texts : Begin(p, "split", t)
  /\ pc' = [pc EXCEPT ![p] = "split"]
  /\ UNCHANGED <<pdftoppm_ok, service, owner, previous_summary, app_vars>>

(***************************************************************************)
(* Failure: every stage logs and re-raises (lines 101-103, 170-172,        *)
(* 203-205, 263-265); only main() catches (app.py line 76)                 *)
(***************************************************************************)
\* mutant: the failure is swallowed and the chunks corrected so far returned
RaiseSwallowed(p) ==
  /\ outcome' = [outcome EXCEPT ![p] = "returned"]
  /\ split_result' = [split_result EXCEPT ![p] = <<corrected_chunks[p]>>]
  /\ pc' = [pc EXCEPT ![p] = IF entry[p] = "app" THEN "display" ELSE "idle"]
  /\ UNCHANGED final_text

Raise(p) ==
  /\ outcome' = [outcome EXCEPT ![p] = "raised"]
  /\ pc' = [pc EXCEPT ![p] = IF entry[p] = "app" THEN "except" ELSE "idle"]
  /\ UNCHANGED <<split_result, final_text>>

(***************************************************************************)
(* extract_text_from_pdf (lines 77-103)                                    *)
(***************************************************************************)
\* docs: what the OCR can find on the pages of the document
Extract(p, docs) ==
  /\ pc[p] = "extract"
  /\ \/ \E pages \in docs :
          /\ text' = [text EXCEPT ![p] = ExtractedText(pages)]
          /\ original_length' = [original_length EXCEPT ![p] = <<Len(ExtractedText(pages))>>]
          /\ pc' = [pc EXCEPT ![p] = IF entry[p] = "process_pdf" THEN "reset" ELSE "split"]
          /\ UNCHANGED <<outcome, split_result, final_text>>
     \/ /\ Raise(p)
        /\ UNCHANGED <<text, original_length>>
  /\ UNCHANGED <<svc_vars, app_vars, stale, entry, doc, chunks, i, context, corrected_text,
                 new_summary, corrected_chunks, calls>>

\* mutant: process_pdf goes on without emptying the field
ResetContextSkipped(p) ==
  /\ pc[p] = "reset"
  /\ pc' = [pc EXCEPT ![p] = "split"]
  /\ UNCHANGED <<svc_vars, app_vars, loc_vars>>

\* process_pdf line 253: self.previous_summary = ""
ResetContext(p) ==
  /\ pc[p] = "reset"
  /\ previous_summary' = EmptyStr
  /\ pc' = [pc EXCEPT ![p] = "split"]
  /\ UNCHANGED <<pdftoppm_ok, service, owner, ndocs, entries, app_vars, loc_vars>>

(***************************************************************************)
(* split_and_correct_text_with_runnables (lines 174-205)                   *)
(***************************************************************************)
\* lines 188-195
SplitText(p) ==
  /\ pc[p] = "split"
  /\ chunks' = [chunks EXCEPT ![p] = split_text(text[p], ChunkSize, ChunkOverlap)]
  /\ corrected_chunks' = [corrected_chunks EXCEPT ![p] = <<>>]
  /\ i' = [i EXCEPT ![p] = 1]
  /\ pc' = [pc EXCEPT ![p] = "loop"]
  /\ UNCHANGED <<svc_vars, app_vars, stale, entry, doc, text, original_length, context,
                 corrected_text, new_summary, split_result, final_text, outcome, calls>>

\* mutant: the stored summary is passed to the first chunk too
LoopContextAlways(idx, stored) == stored

\* line 197: context = self.previous_summary if i > 0 else ""
LoopContext(idx, stored) == IF idx > 1 THEN stored ELSE EmptyStr

\* lines 196-197 and 201-202: next chunk, or return the corrected chunks
LoopNext(p) ==
  /\ pc[p] = "loop"
  /\ IF i[p] <= Len(chunks[p])
     THEN /\ context' = [context EXCEPT ![p] = LoopContext(i[p], previous_summary)]
          /\ pc' = [pc EXCEPT ![p] = "correct"]
          /\ UNCHANGED <<split_result, outcome>>
     ELSE /\ split_result' = [split_result EXCEPT ![p] = <<corrected_chunks[p]>>]
          /\ outcome' = [outcome EXCEPT ![p] =
                           IF entry[p] = "split" THEN "returned" ELSE @]
          /\ pc' = [pc EXCEPT ![p] = IF entry[p] = "split" THEN "idle" ELSE "reassemble"]
          /\ UNCHANGED context
  /\ UNCHANGED <<svc_vars, app_vars, stale, entry, doc, text, original_length, chunks, i,
                 corrected_text, new_summary, corrected_chunks, final_text, calls>>

Call(o, p, succeeded) ==
  [op |-> o, doc |-> doc[p], chunk |-> i[p], ok |-> succeeded,
   ctx_len |-> IF o = "correct" THEN Len(context[p]) ELSE 0,
   ctx_from |-> IF o = "correct" THEN Range(context[p]) ELSE {}]

\* lines 155-157: self.correction_runnable.invoke({text_chunk, context})
CorrectionCall(p, lens) ==
  /\ pc[p] = "correct"
  /\ \/ /\ \E n \in lens :
             corrected_text' = [corrected_text EXCEPT ![p] = CorrectionReply(doc[p], i[p], n)]
        /\ calls' = [calls EXCEPT ![p] = Append(@, Call("correct", p, TRUE))]
        /\ pc' = [pc EXCEPT ![p] = "summarize"]
        /\ UNCHANGED <<outcome, split_result, final_text>>
     \/ /\ calls' = [calls EXCEPT ![p] = Append(@, Call("correct", p, FALSE))]
        /\ Raise(p)
        /\ UNCHANGED corrected_text
  /\ UNCHANGED <<svc_vars, app_vars, stale, entry, doc, text, original_length, chunks, i,
                 context, new_summary, corrected_chunks>>

\* mutant: the summary is stored whole
CutSummaryNone(summary) == summary

\* line 167: new_summary[:200] if len(new_summary) > 200 else new_summary
CutSummary(summary) ==
  IF Len(summary) > SummaryLimit THEN SubSeq(summary, 1, SummaryLimit) ELSE summary

\* lines 161-169 and 199: summarize, store the summary, return and append
SummarizeCall(p, lens) ==
  /\ pc[p] = "summarize"
  /\ \/ /\ \E n \in lens :
             /\ new_summary' = [new_summary EXCEPT ![p] = SummaryReply(doc[p], i[p], n)]
             /\ previous_summary' = CutSummary(SummaryReply(doc[p], i[p], n))
        /\ calls' = [calls EXCEPT ![p] = Append(@, Call("summarize", p, TRUE))]
        /\ corrected_chunks' = [corrected_chunks EXCEPT ![p] = Append(@, corrected_text[p])]
        /\ i' = [i EXCEPT ![p] = @ + 1]
        /\ pc' = [pc EXCEPT ![p] = "loop"]
        /\ UNCHANGED <<outcome, split_result, final_text>>
     \/ /\ calls' = [calls EXCEPT ![p] = Append(@, Call("summarize", p, FALSE))]
        /\ Raise(p)
        /\ UNCHANGED <<new_summary, previous_summary, corrected_chunks, i>>
  /\ UNCHANGED <<pdftoppm_ok, service, owner, ndocs, entries, app_vars, stale, entry,
                 doc, text, original_length, chunks, context, corrected_text>>

(***************************************************************************)
(* reassemble_text as called by process_pdf (line 258), by main()          *)
(* (app.py line 51) or directly                                            *)
(***************************************************************************)
Reassemble(p) ==
  /\ pc[p] = "reassemble"
  /\ final_text' = [final_text EXCEPT ![p] =
                      <<reassemble_text(split_result[p][1], original_length[p])>>]
  /\ outcome' = [outcome EXCEPT ![p] = IF entry[p] = "app" THEN @ ELSE "returned"]
  /\ pc' = [pc EXCEPT ![p] = IF entry[p] = "app" THEN "display" ELSE "idle"]
  /\ UNCHANGED <<svc_vars, app_vars, stale, entry, doc, text, original_length, chunks, i,
                 context, corrected_text, new_summary, corrected_chunks, split_result,
                 calls>>

(***************************************************************************)
(* app.py main(), after the pipeline                                       *)
(***************************************************************************)
\* lines 62-74: success message and the two text areas
AppDisplay(p) ==
  /\ pc[p] = "display"
  /\ shown' = shown \cup {"success", "extracted", "corrected"}
  /\ outcome' = [outcome EXCEPT ![p] = "returned"]
  /\ pc' = [pc EXCEPT ![p] = "cleanup"]
  /\ UNCHANGED <<svc_vars, temp_pdf, stale, entry, doc, text, original_length, chunks, i,
                 context, corrected_text, new_summary, corrected_chunks, split_result,
                 final_text, calls>>

\* mutant: the handler returns, skipping the clean-up that follows it
AppExceptReturns(p) ==
  /\ pc[p] = "except"
  /\ shown' = shown \cup {"error"}
  /\ pc' = [pc EXCEPT ![p] = "idle"]
  /\ UNCHANGED <<svc_vars, temp_pdf, loc_vars>>

\* lines 76-78: except Exception: st.error(...)
AppExcept(p) ==
  /\ pc[p] = "except"
  /\ shown' = shown \cup {"error"}
  /\ pc' = [pc EXCEPT ![p] = "cleanup"]
  /\ UNCHANGED <<svc_vars, temp_pdf, loc_vars>>

\* lines 80-88: remove temp.pdf if it exists
AppCleanup(p) ==
  /\ pc[p] = "cleanup"
  /\ temp_pdf' = FALSE
  /\ pc' = [pc EXCEPT ![p] = "idle"]
  /\ UNCHANGED <<svc_vars, shown, loc_vars>>

(***************************************************************************)
(* Specifications                                                          *)
(***************************************************************************)
Pipeline(p, docs, corr_lens, summary_lens) ==
  \/ Extract(p, docs)
  \/ ResetContext(p)
  \/ SplitText(p)
  \/ LoopNext(p)
  \/ CorrectionCall(p, corr_lens)
  \/ SummarizeCall(p, summary_lens)
  \/ Reassemble(p)

\* runs of main(), one upload each on an object of its own, and clients
\* that use the object they built document after document
Next ==
  \/ AppInit
  \/ ClientInit
  \/ StartProcessPdf(1)
  \/ AppUpload(1)
  \/ StartSplit(1, DirectTexts)
  \/ Pipeline(1, PageLists, CorrLens, SummaryLens)
  \/ AppDisplay(1)
  \/ AppExcept(1)
  \/ AppCleanup(1)

Spec == Init /\ [][Next]_vars

\* one service object shared by two callers
InitPar ==
  /\ pdftoppm_ok = TRUE
  /\ service = "ready"
  /\ owner = "client"
  /\ previous_summary = EmptyStr
  /\ ndocs = 0
  /\ entries = {}
  /\ temp_pdf = FALSE
  /\ shown = {}
  /\ InitLocals

NextPar ==
  \E p \in Procs :
    \/ StartProcessPdf(p)
    \/ StartSplit(p, WordTexts)
    \/ Pipeline(p, WordPages, {MaxCorrLen}, {SummaryLimit + SummaryOver})

SpecPar == InitPar /\ [][NextPar]_vars

\* direct calls reassemble_text(corrected_chunks, original_text_length)
Parts == StringsUpTo(PartChars, MaxPartLen)
PartLists == UNION {[1..k -> Parts] : k \in 0..MaxParts}
Targets == {NoLength} \cup {<<n>> : n \in 0..MaxTarget}

InitReassemble ==
  /\ pdftoppm_ok = TRUE
  /\ service = "ready"
  /\ owner = "client"
  /\ previous_summary = EmptyStr
  /\ ndocs = 0
  /\ entries = {}
  /\ temp_pdf = FALSE
  /\ shown = {}
  /\ \E parts \in PartLists, target \in Targets :
       /\ pc = [p \in Procs |-> IF p = 1 THEN "reassemble" ELSE "idle"]
       /\ entry = [p \in Procs |-> IF p = 1 THEN "reassemble" ELSE "none"]
       /\ doc = [p \in Procs |-> 0]
       /\ text = [p \in Procs |-> <<>>]
       /\ original_length = [p \in Procs |-> IF p = 1 THEN target ELSE NoLength]
       /\ chunks = [p \in Procs |-> <<>>]
       /\ i = [p \in Procs |-> 1]
       /\ context = [p \in Procs |-> EmptyStr]
       /\ corrected_text = [p \in Procs |-> <<>>]
       /\ new_summary = [p \in Procs |-> <<>>]
       /\ corrected_chunks = [p \in Procs |-> <<>>]
       /\ split_result = [p \in Procs |-> IF p = 1 THEN <<parts>> ELSE <<>>]
       /\ final_text = [p \in Procs |-> <<>>]
       /\ outcome = [p \in Procs |-> "none"]
       /\ calls = [p \in Procs |-> <<>>]
       /\ stale = [p \in Procs |-> FALSE]

NextReassemble == Reassemble(1)

SpecReassemble == InitReassemble /\ [][NextReassemble]_vars


(***************************************************************************)
(* Properties                                                              *)
(***************************************************************************)
\* total length of the first k parts
RECURSIVE TotalLen(_, _)
TotalLen(parts, k) == IF k = 0 THEN 0 ELSE TotalLen(parts, k - 1) + Len(parts[k])

\* a direct call of reassemble_text by p has returned
Reassembled(p) == entry[p] = "reassemble" /\ pc[p] = "idle" /\ final_text[p] # <<>>

\* the loop of split_and_correct_text_with_runnables is running in p
InLoop(p) == pc[p] \in {"loop", "correct", "summarize"}

\* the calls of kind o that p has made
CallsOf(p, o) == {k \in DOMAIN calls[p] : calls[p][k].op = o}

\* C1: with a target length n supplied (0 included), reassemble_text returns
\* exactly the first n characters of the join of the chunks followed by spaces
C1_LengthReconciled ==
  \A p \in Procs :
    (Reassembled(p) /\ original_length[p] # NoLength) =>
      LET n == original_length[p][1]
          joined == Join(split_result[p][1])
      IN /\ Len(final_text[p][1]) = n
         /\ final_text[p][1] = SubSeq(joined \o Spaces(n), 1, n)

\* C2: with no target length, reassemble_text returns every chunk exactly
\* once, in list order, with nothing between, before or after them
C2_DirectJoin ==
  \A p \in Procs :
    (Reassembled(p) /\ original_length[p] = NoLength) =>
      LET parts == split_result[p][1]
          r == final_text[p][1]
      IN /\ Len(r) = TotalLen(parts, Len(parts))
         /\ \A k \in 1..Len(parts) :
              SubSeq(r, TotalLen(parts, k - 1) + 1, TotalLen(parts, k)) = parts[k]

C2_Witness ==
  /\ Reassembled(1) /\ original_length[1] = NoLength
  /\ Len(split_result[1][1]) = 2
  /\ split_result[1][1][1] = <<"a", "b">>
  /\ split_result[1][1][2] = <<"b">>
  /\ final_text[1][1] = <<"a", "b", "b">>

\* no correction call of p got a context that holds text of another document
NoForeignContext(p) ==
  \A k \in CallsOf(p, "correct") :
    \A tok \in calls[p][k].ctx_from : tok[2] = calls[p][k].doc

\* the first correction call of p got the empty context
FirstContextEmpty(p) ==
  \A k \in CallsOf(p, "correct") : calls[p][k].chunk = 1 => calls[p][k].ctx_len = 0

\* C3: on a service object used through process_pdf or through the app,
\* the rolling context of the object is empty while the first chunk of a
\* document is pending, the first correction call of a document gets the
\* empty context and no correction call gets a summary of another document
C3_ResetEveryDocument ==
  \A p \in Procs :
    /\ (entries \subseteq {"process_pdf", "app"} /\ InLoop(p) /\ i[p] = 1)
         => previous_summary = EmptyStr
    /\ FirstContextEmpty(p)
    /\ NoForeignContext(p)

\* process_pdf found the summary of an earlier document in the field,
\* emptied it, and the first correction call got the empty context
C3_Witness ==
  /\ entries = {"process_pdf"}
  /\ entry[1] = "process_pdf" /\ pc[1] = "summarize" /\ i[1] = 1
  /\ stale[1]
  /\ previous_summary = EmptyStr
  /\ calls[1] # <<>> /\ calls[1][1].ctx_len = 0

\* C4: a failed correction or summarization call is the last call of its
\* document: it is not retried, no later chunk is corrected, the exception
\* leaves the service and neither a chunk list nor a text is returned
C4_FailureAbortsDocument ==
  \A p \in Procs :
    \A k \in DOMAIN calls[p] :
      ~calls[p][k].ok =>
        /\ k = Len(calls[p])
        /\ outcome[p] = "raised"
        /\ pc[p] \in {"idle", "except", "cleanup"}
        /\ split_result[p] = <<>>
        /\ final_text[p] = <<>>
        /\ entry[p] = "app" => "corrected" \notin shown
        /\ \A j \in DOMAIN calls[p] :
             (j # k /\ calls[p][j].op = calls[p][k].op)
               => calls[p][j].chunk < calls[p][k].chunk

\* the summarization of the last of two chunks failed: both corrected
\* chunks are lost
C4_Witness ==
  /\ entry[1] = "process_pdf" /\ pc[1] = "idle" /\ outcome[1] = "raised"
  /\ Len(chunks[1]) = 2 /\ Len(calls[1]) = 4
  /\ calls[1][4].op = "summarize" /\ ~calls[1][4].ok
  /\ corrected_text[1] # <<>>
  /\ split_result[1] = <<>>

\* C5: once an app run whose extraction succeeded has ended in a failure,
\* the page shows the extracted text
C5_ExtractedTextShown ==
  \A p \in Procs :
    (entry[p] = "app" /\ pc[p] = "idle" /\ outcome[p] = "raised"
       /\ original_length[p] # NoLength)
      => "extracted" \in shown

\* C6: temp.pdf exists only while the app run that saved it is still
\* working: once the run has ended, by success or failure, it is gone
C6_TempFileRemoved ==
  temp_pdf => \E p \in Procs : entry[p] = "app" /\ pc[p] # "idle"

\* an app run that failed has ended and temp.pdf is gone
C6_Witness ==
  /\ entry[1] = "app" /\ pc[1] = "idle" /\ outcome[1] = "raised"
  /\ "error" \in shown
  /\ ~temp_pdf

\* C7: without a working pdftoppm the service is never ready: construction
\* fails, and in a run of main() whose construction failed the page shows
\* the error and no document is accepted, saved, extracted or corrected
C7_InitFailureBlocks ==
  /\ ~pdftoppm_ok => service = "failed"
  /\ service = "failed" =>
       /\ owner = "main" => shown = {"init_error"}
       /\ entries = {}
       /\ ~temp_pdf
       /\ \A p \in Procs : pc[p] = "idle" /\ entry[p] = "none" /\ calls[p] = <<>>

\* a run of main() that found pdftoppm gone, after a run that processed a
\* document
C7_Witness ==
  /\ ~pdftoppm_ok /\ service = "failed" /\ owner = "main"
  /\ ndocs > 0
  /\ shown = {"init_error"}

\* C8 as stated: a text shorter than the chunk size, the empty text
\* included, gives exactly one chunk equal to the text and exactly one
\* correction call, and no chunk is empty
C8_ShortTextOneChunk ==
  \A p \in Procs :
    /\ (InLoop(p) /\ Len(text[p]) < ChunkSize) => chunks[p] = <<text[p]>>
    /\ (split_result[p] # <<>> /\ Len(text[p]) < ChunkSize)
         => Cardinality(CallsOf(p, "correct")) = 1
    /\ InLoop(p) => \A k \in DOMAIN chunks[p] : chunks[p][k] # <<>>

\* C8 amended: a text shorter than the chunk size gives exactly one chunk,
\* the text without its leading and trailing whitespace - the text itself
\* whenever it comes from extraction and is not empty - and exactly one
\* correction call; an empty or all-whitespace text gives no chunk and no
\* correction call; no chunk is empty
C8_ShortTextStripped ==
  \A p \in Procs :
    /\ (InLoop(p) /\ Len(text[p]) < ChunkSize) =>
         /\ chunks[p] = IF Strip(text[p]) = <<>> THEN <<>> ELSE <<Strip(text[p])>>
         /\ (entry[p] \in {"process_pdf", "app"} /\ text[p] # <<>>)
              => chunks[p] = <<text[p]>>
    /\ (split_result[p] # <<>> /\ Len(text[p]) < ChunkSize)
         => Cardinality(CallsOf(p, "correct")) = IF Strip(text[p]) = <<>> THEN 0 ELSE 1
    /\ InLoop(p) => \A k \in DOMAIN chunks[p] : chunks[p][k] # <<>>

\* a short text with whitespace around it went through as one stripped chunk
C8_Witness ==
  /\ entry[1] = "split" /\ pc[1] = "idle" /\ outcome[1] = "returned"
  /\ text[1] # <<>> /\ Len(text[1]) < ChunkSize
  /\ Strip(text[1]) # text[1] /\ Strip(text[1]) # <<>>
  /\ Len(chunks[1]) = 1
  /\ Cardinality(CallsOf(1, "correct")) = 1

\* C9: the calls of a document alternate correction and summarization in
\* chunk order; the first correction gets the empty context, the
\* correction of chunk i > 1 gets the summary returned for chunk i - 1 cut
\* to 200 characters; without failure the result holds the corrected
\* chunks in chunk order
C9_SequentialContext ==
  \A p \in Procs :
    /\ \A k \in DOMAIN calls[p] :
         /\ calls[p][k].op = IF k % 2 = 1 THEN "correct" ELSE "summarize"
         /\ calls[p][k].chunk = (k + 1) \div 2
         /\ calls[p][k].ctx_len <= SummaryLimit
         /\ calls[p][k].ctx_from \subseteq {<<"s", doc[p], calls[p][k].chunk - 1>>}
    /\ FirstContextEmpty(p)
    /\ (pc[p] = "correct" /\ i[p] > 1) =>
         /\ context[p] = Take(new_summary[p], SummaryLimit)
         /\ Range(new_summary[p]) \subseteq {<<"s", doc[p], i[p] - 1>>}
         /\ calls[p][Len(calls[p])].op = "summarize"
    /\ split_result[p] # <<>> =>
         /\ Len(split_result[p][1]) = Len(chunks[p])
         /\ Len(calls[p]) = 2 * Len(chunks[p])
         /\ \A k \in DOMAIN chunks[p] :
              Range(split_result[p][1][k]) \subseteq {<<"c", doc[p], k>>}

\* the summary of chunk 1 came back longer than 200 characters and the
\* correction of chunk 2 is about to get its first 200
C9_Witness ==
  /\ pc[1] = "correct" /\ i[1] = 2
  /\ Len(new_summary[1]) > SummaryLimit
  /\ Len(context[1]) = SummaryLimit

\* C10: under concurrent use every correction call still takes its context
\* from the one field of the service object: empty for a first chunk, else
\* at most 200 characters of a summary of whichever document wrote last
C10_ContextFromSharedField ==
  \A p \in Procs :
    /\ FirstContextEmpty(p)
    /\ \A k \in CallsOf(p, "correct") :
         /\ calls[p][k].ctx_len <= SummaryLimit
         /\ \A tok \in calls[p][k].ctx_from : tok[1] = "s" /\ tok[2] \in 1..ndocs
    /\ (pc[p] = "correct" /\ i[p] > 1 /\ context[p] # EmptyStr) =>
         \E d \in 1..ndocs, k \in 1..MaxTextLen :
           context[p] \in {SummaryReply(d, k, n) : n \in 1..SummaryLimit}

\* a correction call of one document got a summary of the other document
C10_Witness ==
  \E p \in Procs : \E k \in CallsOf(p, "correct") :
    /\ calls[p][k].chunk > 1
    /\ calls[p][k].ctx_from # {}
    /\ \A tok \in calls[p][k].ctx_from : tok[2] # calls[p][k].doc

\* a reset by one invocation emptied the field while the other, past its
\* first chunk, had not yet read its own summary back
C10_ResetErasesSummary ==
  \E p, q \in Procs :
    /\ p # q
    /\ entry[q] = "process_pdf" /\ pc[q] = "split"
    /\ pc[p] = "loop" /\ i[p] > 1 /\ i[p] <= Len(chunks[p])
    /\ new_summary[p] # EmptyStr
    /\ previous_summary = EmptyStr

====
